---- MODULE Spec2Model ----
(***************************************************************************)
(* Model of pkg/proc/amd64util/xsave.go: the XSAVE area codec.             *)
(*                                                                         *)
(* A byte slice is a sequence of bytes (Go index i is element i + 1); a    *)
(* nil slice is the empty sequence and every slice has capacity equal to   *)
(* its length.  An unsigned integer of w bits is its base-256 numeral of   *)
(* w/8 digits, least significant digit first; a bitmap (xstate_bv) is the  *)
(* set of the positions of its set bits.  A Go run-time panic (slice       *)
(* bounds out of range) is the outcome "panic"; the assignments made       *)
(* before it stay made.                                                    *)
(***************************************************************************)
EXTENDS Integers, Sequences, FiniteSets, TLC

VARIABLES
    Xsave,           \* AMD64Xstate.Xsave: raw xsave area
    fpregs,          \* AMD64Xstate.AMD64PtraceFpRegs
    AvxState,        \* AMD64Xstate.AvxState
    YmmSpace,        \* AMD64Xstate.YmmSpace
    Avx512State,     \* AMD64Xstate.Avx512State
    ZmmSpace,        \* AMD64Xstate.ZmmSpace
    zmmHi256offset,  \* AMD64Xstate.zmmHi256offset
    regs,            \* the list returned by the last call of Decode
    last,            \* the last call: its name, arguments and result
    rt,              \* history of a decode / write-back / decode round trip
    nops             \* number of calls made so far

vars == <<Xsave, fpregs, AvxState, YmmSpace, Avx512State, ZmmSpace,
          zmmHi256offset, regs, last, rt, nops>>

-----------------------------------------------------------------------------
(* Layout constants *)

\* a start of the XMM region that is half a register off
XSAVE_XMM_REGION_START_Misaligned == 160 + 8

XSAVE_XMM_REGION_START == 160
XSAVE_HEADER_START == 512
XSAVE_HEADER_LEN == 64
XSAVE_EXTENDED_REGION_START == 576
XSAVE_SSE_REGION_LEN == 416
I386_LINUX_XSAVE_XCR0_OFFSET == 464

YmmSpaceLen == 256
ZmmSpaceLen == 512
XmmSpaceLen == 256
StSpaceLen == 32
PaddingLen == 24
\* binary.Size of AMD64PtraceFpRegs
FpRegsSize == 4 * 2 + 2 * 8 + 2 * 4 + 4 * StSpaceLen + XmmSpaceLen + 4 * PaddingLen

-----------------------------------------------------------------------------
(* Slices *)

Min(a, b) == IF a < b THEN a ELSE b

Zeros(k) == [i \in 1..k |-> 0]

\* Go b[lo:hi], for 0 <= lo <= hi <= len(b)
Slice(b, lo, hi) == SubSeq(b, lo + 1, hi)

\* Go copy(dst[pos:], src) for 0 <= pos <= len(dst): the bytes of src that fit
Copy(dst, pos, src) ==
    LET k == Min(Len(dst) - pos, Len(src))
    IN  SubSeq(dst, 1, pos) \o SubSeq(src, 1, k) \o SubSeq(dst, pos + k + 1, Len(dst))

\* Go copy(dst[:], src) into a fixed array dst, len(src) <= len(dst)
CopyArray(dst, src) == src \o SubSeq(dst, Len(src) + 1, Len(dst))

\* binary.LittleEndian.UintN: the numeral of the N/8 bytes, lowest digit first
LittleEndianUint(b) == [k \in 1..Len(b) |-> b[k]]

\* uint64(x) of a narrower unsigned x: the numeral extended with zero digits
Uint64Of(x) == [k \in 1..8 |-> IF k <= Len(x) THEN x[k] ELSE 0]

\* uint16(x) of a wider unsigned x: the two lowest digits
Uint16Of(x) == [k \in 1..2 |-> x[k]]

\* binary.Write(&buf, binary.LittleEndian, x): the digits, lowest first
LittleEndianBytes(x) == [k \in 1..Len(x) |-> x[k]]

-----------------------------------------------------------------------------
(* xstate_bv *)

\* the bitmap of a 64 bit numeral: the positions of its set bits
xstate_bv(u) == {p \in 0..63 : (u[(p \div 8) + 1] \div (2 ^ (p % 8))) % 2 = 1}

\* the AVX test reading the ZMM_Hi256 bit
hasAVX_WrongBit(s) == 6 \in s

hasAVX(s) == 2 \in s
hasZMM_Hi256(s) == 6 \in s
hasHi16_ZMM(s) == 7 \in s
hasPKRU(s) == 9 \in s

-----------------------------------------------------------------------------
(* AMD64XstateRead *)

\* the zero value of AMD64PtraceFpRegs
ZeroFpRegs ==
    [Cwd |-> Zeros(2), Swd |-> Zeros(2), Ftw |-> Zeros(2), Fop |-> Zeros(2),
     Rip |-> Zeros(8), Rdp |-> Zeros(8), Mxcsr |-> Zeros(4), MxcrMask |-> Zeros(4),
     StSpace |-> [i \in 1..StSpaceLen |-> Zeros(4)],
     XmmSpace |-> Zeros(XmmSpaceLen),
     Padding |-> [i \in 1..PaddingLen |-> Zeros(4)]]

\* binary.Read(rdr, binary.LittleEndian, &regset.AMD64PtraceFpRegs) on a reader
\* over data: io.ReadFull of the struct's size, then the fields in order
BinaryRead(data, old) ==
    IF Len(data) = 0 THEN [v |-> old, err |-> "EOF"]
    ELSE IF Len(data) < FpRegsSize THEN [v |-> old, err |-> "unexpected EOF"]
    ELSE [err |-> "nil",
          v |-> [Cwd |-> LittleEndianUint(Slice(data, 0, 2)),
                 Swd |-> LittleEndianUint(Slice(data, 2, 4)),
                 Ftw |-> LittleEndianUint(Slice(data, 4, 6)),
                 Fop |-> LittleEndianUint(Slice(data, 6, 8)),
                 Rip |-> LittleEndianUint(Slice(data, 8, 16)),
                 Rdp |-> LittleEndianUint(Slice(data, 16, 24)),
                 Mxcsr |-> LittleEndianUint(Slice(data, 24, 28)),
                 MxcrMask |-> LittleEndianUint(Slice(data, 28, 32)),
                 StSpace |-> [i \in 1..StSpaceLen |->
                     LittleEndianUint(Slice(data, 32 + 4 * (i - 1), 32 + 4 * i))],
                 XmmSpace |-> Slice(data, 32 + 4 * StSpaceLen,
                                    32 + 4 * StSpaceLen + XmmSpaceLen),
                 Padding |-> [i \in 1..PaddingLen |->
                     LittleEndianUint(Slice(data,
                         32 + 4 * StSpaceLen + XmmSpaceLen + 4 * (i - 1),
                         32 + 4 * StSpaceLen + XmmSpaceLen + 4 * i))]]]

\* the guess without the test of the buffer's length
GuessIgnoringLength(xcr0, xstateargs) ==
    IF hasPKRU(xcr0) THEN 896 ELSE 1152

\* the guess of the ZMM_Hi256 component offset when the caller gives none
GuessZMMHi256Offset(xcr0, xstateargs) ==
    IF hasPKRU(xcr0) /\ Len(xstateargs) = 2440
    THEN 896     \* AMD CPUs supporting PKRU
    ELSE 1152    \* Intel CPUs supporting AVX512

\* the AVX-512 step recording the offset only after the copy
ReadZMMHi256OffsetLast(xstateargs, xcr0, regset, xstateZMMHi256Offset) ==
    LET off == IF xstateZMMHi256Offset = 0
               THEN GuessZMMHi256Offset(xcr0, xstateargs)
               ELSE xstateZMMHi256Offset
    IN  IF off < 0 \/ off > Len(xstateargs)
        THEN [regset |-> regset, err |-> "panic"]
        ELSE LET avx512state == Slice(xstateargs, off, Len(xstateargs))
                 r2 == [regset EXCEPT !.Avx512State = TRUE]
             IN  IF Len(avx512state) < ZmmSpaceLen
                 THEN [regset |-> r2, err |-> "panic"]
                 ELSE [regset |-> [r2 EXCEPT !.ZmmSpace =
                          CopyArray(@, Slice(avx512state, 0, ZmmSpaceLen)),
                          !.zmmHi256offset = off],
                       err |-> "nil"]

\* the part of AMD64XstateRead after the AVX state is read
ReadZMMHi256(xstateargs, xcr0, regset, xstateZMMHi256Offset) ==
    LET off == IF xstateZMMHi256Offset = 0
               THEN GuessZMMHi256Offset(xcr0, xstateargs)
               ELSE xstateZMMHi256Offset
        r1 == [regset EXCEPT !.zmmHi256offset = off]
    IN  IF off < 0 \/ off > Len(xstateargs)
        THEN [regset |-> r1, err |-> "panic"]          \* xstateargs[off:]
        ELSE LET avx512state == Slice(xstateargs, off, Len(xstateargs))
                 r2 == [r1 EXCEPT !.Avx512State = TRUE]
             IN  IF Len(avx512state) < ZmmSpaceLen
                 THEN [regset |-> r2, err |-> "panic"]  \* avx512state[:512]
                 ELSE [regset |-> [r2 EXCEPT !.ZmmSpace =
                          CopyArray(@, Slice(avx512state, 0, ZmmSpaceLen))],
                       err |-> "nil"]

\* the part of AMD64XstateRead after the header is read
ReadAVX(xstateargs, xcr0, bv, regset, xstateZMMHi256Offset) ==
    LET avxstate == Slice(xstateargs, XSAVE_EXTENDED_REGION_START, Len(xstateargs))
        r1 == [regset EXCEPT !.AvxState = TRUE]
    IN  IF Len(avxstate) < YmmSpaceLen
        THEN [regset |-> r1, err |-> "panic"]           \* avxstate[:256]
        ELSE LET r2 == [r1 EXCEPT !.YmmSpace =
                           CopyArray(@, Slice(avxstate, 0, YmmSpaceLen))]
             IN  IF ~hasZMM_Hi256(bv)
                 THEN [regset |-> r2, err |-> "nil"]
                 ELSE ReadZMMHi256(xstateargs, xcr0, r2, xstateZMMHi256Offset)

AMD64XstateRead(xstateargs, readLegacy, regset, xstateZMMHi256Offset) ==
    IF XSAVE_HEADER_START + XSAVE_HEADER_LEN >= Len(xstateargs)
    THEN [regset |-> regset, err |-> "nil"]
    ELSE
    LET rd == IF readLegacy
              THEN BinaryRead(Slice(xstateargs, 0, XSAVE_HEADER_START), regset.fpregs)
              ELSE [v |-> regset.fpregs, err |-> "nil"]
    IN  IF rd.err # "nil" THEN [regset |-> regset, err |-> rd.err]
        ELSE
        LET r1 == [regset EXCEPT !.fpregs = rd.v]
            xcr0 == xstate_bv(LittleEndianUint(Slice(xstateargs,
                        I386_LINUX_XSAVE_XCR0_OFFSET, I386_LINUX_XSAVE_XCR0_OFFSET + 8)))
            xsaveheader == Slice(xstateargs, XSAVE_HEADER_START,
                                 XSAVE_HEADER_START + XSAVE_HEADER_LEN)
            bv == xstate_bv(LittleEndianUint(Slice(xsaveheader, 0, 8)))
            xcomp_bv == LittleEndianUint(Slice(xsaveheader, 8, 16))
        IN  IF 63 \in xstate_bv(xcomp_bv)
            THEN [regset |-> r1, err |-> "nil"]     \* compact format not supported
            ELSE IF ~hasAVX(bv)
            THEN [regset |-> r1, err |-> "nil"]
            ELSE ReadAVX(xstateargs, xcr0, bv, r1, xstateZMMHi256Offset)

-----------------------------------------------------------------------------
(* SetXmmRegister *)

\* the third part of SetXmmRegister: bytes [32, 64)
SetZmm(xsave, off, n, rest) ==
    LET zmmval == rest
        zmmpos == off + (n * 32)
    IN  IF zmmpos >= Len(xsave)
        THEN [Xsave |-> xsave, err |-> "bytes 32.. not in XSAVE area"]
        ELSE IF zmmpos < 0
        THEN [Xsave |-> xsave, err |-> "panic"]     \* xstate.Xsave[zmmpos:]
        ELSE [Xsave |-> Copy(xsave, zmmpos, zmmval), err |-> "nil"]

\* the second part of SetXmmRegister: bytes [16, 32)
SetYmm(xsave, off, n, rest0) ==
    LET ymmval == IF Len(rest0) > 16 THEN Slice(rest0, 0, 16) ELSE rest0
        rest == Slice(rest0, Len(ymmval), Len(rest0))
        ymmpos == XSAVE_EXTENDED_REGION_START + (n * 16)
    IN  IF ymmpos >= Len(xsave)
        THEN [Xsave |-> xsave, err |-> "bytes 16.. not in XSAVE area"]
        ELSE IF ymmpos < 0
        THEN [Xsave |-> xsave, err |-> "panic"]
        ELSE LET x2 == Copy(xsave, ymmpos, ymmval)
             IN  IF Len(rest) = 0 THEN [Xsave |-> x2, err |-> "nil"]
                 ELSE SetZmm(x2, off, n, rest)

\* SetXmmRegister accepting index 16
SetXmmRegisterOffByOne(xsave, off, n, value) ==
    IF n > 16 THEN [Xsave |-> xsave, err |-> "not supported"]
    ELSE IF Len(value) > 64 THEN [Xsave |-> xsave, err |-> "too large"]
    ELSE
    LET xmmval == IF Len(value) > 16 THEN Slice(value, 0, 16) ELSE value
        rest == Slice(value, Len(xmmval), Len(value))
        xmmpos == XSAVE_XMM_REGION_START + (n * 16)
    IN  IF xmmpos >= Len(xsave)
        THEN [Xsave |-> xsave, err |-> "not in XSAVE area"]
        ELSE LET x1 == Copy(xsave, xmmpos, xmmval)
             IN  IF Len(rest) = 0 THEN [Xsave |-> x1, err |-> "nil"]
                 ELSE SetYmm(x1, off, n, rest)

\* SetXmmRegister on the state with raw area xsave and cached offset off
SetXmmRegister(xsave, off, n, value) ==
    IF n >= 16 THEN [Xsave |-> xsave, err |-> "not supported"]
    ELSE IF Len(value) > 64 THEN [Xsave |-> xsave, err |-> "too large"]
    ELSE
    LET xmmval == IF Len(value) > 16 THEN Slice(value, 0, 16) ELSE value
        rest == Slice(value, Len(xmmval), Len(value))
        xmmpos == XSAVE_XMM_REGION_START + (n * 16)
    IN  IF xmmpos >= Len(xsave)
        THEN [Xsave |-> xsave, err |-> "not in XSAVE area"]
        ELSE IF xmmpos < 0
        THEN [Xsave |-> xsave, err |-> "panic"]     \* xstate.Xsave[xmmpos:]
        ELSE LET x1 == Copy(xsave, xmmpos, xmmval)
             IN  IF Len(rest) = 0 THEN [Xsave |-> x1, err |-> "nil"]
                 ELSE SetYmm(x1, off, n, rest)

-----------------------------------------------------------------------------
(* Decode *)

\* proc.AppendUint64Register(regs, name, v)
AppendUint64Register(rs, name, v) == Append(rs, [name |-> name, value |-> v])

\* proc.AppendBytesRegister(regs, name, value)
AppendBytesRegister(rs, name, value) == Append(rs, [name |-> name, value |-> value])

\* the loop over the x87 registers, from slot i on
RECURSIVE DecodeSt(_, _, _)
DecodeSt(rs, x, i) ==
    IF i >= StSpaceLen THEN rs
    ELSE LET buf == LittleEndianBytes(x.fpregs.StSpace[i + 1] \o x.fpregs.StSpace[i + 2])
                    \o LittleEndianBytes(Uint16Of(x.fpregs.StSpace[i + 3]))
         IN  DecodeSt(AppendBytesRegister(rs, "ST(" \o ToString(i \div 4) \o ")", buf),
                      x, i + 4)

\* the loop over the SSE registers with the YMM rows not gated by AvxState
RECURSIVE DecodeXmmUngated(_, _, _)
DecodeXmmUngated(rs, x, i) ==
    IF i >= XmmSpaceLen THEN rs
    ELSE LET n == i \div 16
             r1 == AppendBytesRegister(rs, "XMM" \o ToString(n),
                                       Slice(x.fpregs.XmmSpace, i, i + 16))
             r2 == AppendBytesRegister(r1, "YMM" \o ToString(n),
                                       Slice(x.YmmSpace, i, i + 16))
             r3 == IF x.Avx512State
                   THEN AppendBytesRegister(r2, "ZMM" \o ToString(n),
                                            Slice(x.ZmmSpace, n * 32, (n + 1) * 32))
                   ELSE r2
         IN  DecodeXmmUngated(r3, x, i + 16)

\* the loop over the SSE registers, from byte i on
RECURSIVE DecodeXmm(_, _, _)
DecodeXmm(rs, x, i) ==
    IF i >= XmmSpaceLen THEN rs
    ELSE LET n == i \div 16
             r1 == AppendBytesRegister(rs, "XMM" \o ToString(n),
                                       Slice(x.fpregs.XmmSpace, i, i + 16))
             r2 == IF x.AvxState
                   THEN AppendBytesRegister(r1, "YMM" \o ToString(n),
                                            Slice(x.YmmSpace, i, i + 16))
                   ELSE r1
             r3 == IF x.AvxState /\ x.Avx512State
                   THEN AppendBytesRegister(r2, "ZMM" \o ToString(n),
                                            Slice(x.ZmmSpace, n * 32, (n + 1) * 32))
                   ELSE r2
         IN  DecodeXmm(r3, x, i + 16)

Decode(x) ==
    LET r1 == AppendUint64Register(<<>>, "CW", Uint64Of(x.fpregs.Cwd))
        r2 == AppendUint64Register(r1, "SW", Uint64Of(x.fpregs.Swd))
        r3 == AppendUint64Register(r2, "TW", Uint64Of(x.fpregs.Ftw))
        r4 == AppendUint64Register(r3, "FOP", Uint64Of(x.fpregs.Fop))
        r5 == AppendUint64Register(r4, "FIP", x.fpregs.Rip)
        r6 == AppendUint64Register(r5, "FDP", x.fpregs.Rdp)
        r7 == DecodeSt(r6, x, 0)
        r8 == AppendUint64Register(r7, "MXCSR", Uint64Of(x.fpregs.Mxcsr))
        r9 == AppendUint64Register(r8, "MXCSR_MASK", Uint64Of(x.fpregs.MxcrMask))
    IN  DecodeXmm(r9, x, 0)

\* the value of the row called name in the list rs
RowValue(rs, name) == rs[CHOOSE i \in 1..Len(rs) : rs[i].name = name].value

-----------------------------------------------------------------------------
(* Inputs *)

MaxOps == 2

MaxRoundTripOps == 3

\* a raw area of len bytes: byte 1 of the XCR0 bitmap is x, byte 0 of the
\* header's XSTATE_BV is bv, byte 7 of its XCOMP_BV is comp, the rest a pattern
MkBuf(len, x, bv, comp) ==
    [i \in 1..len |->
        IF i - 1 = I386_LINUX_XSAVE_XCR0_OFFSET + 1 THEN x
        ELSE IF i - 1 = XSAVE_HEADER_START THEN bv
        ELSE IF i - 1 = XSAVE_HEADER_START + 15 THEN comp
        ELSE ((i - 1) % 251) + 1]

\* <<length, XCR0 byte 1, XSTATE_BV byte 0, XCOMP_BV byte 7>>
BufferShapes ==
    { <<0, 0, 0, 0>>,         \* nil
      <<165, 0, 0, 0>>,       \* ends inside XMM0
      <<530, 2, 68, 0>>,      \* ends inside the header
      <<576, 2, 68, 0>>,      \* ends with the header
      <<700, 0, 4, 0>>,       \* AVX set, ends inside the AVX state
      <<832, 0, 4, 0>>,       \* AVX only
      <<832, 0, 68, 128>>,    \* compact format
      <<1160, 0, 68, 0>>,     \* ends inside the guessed ZMM_Hi256 state
      <<2440, 2, 68, 0>>,     \* AMD with PKRU
      <<2440, 0, 68, 0>>,     \* 2440 bytes without PKRU
      <<2696, 2, 196, 0>>,    \* Intel AVX-512 with PKRU and Hi16_ZMM
      <<2696, 2, 64, 0>> }    \* ZMM_Hi256 set, AVX unset

Buffers == { MkBuf(t[1], t[2], t[3], t[4]) : t \in BufferShapes }

Hints == {0, 576, 2000, -1}

Indexes == {0, 3, 15, 16}

ValueLens == {1, 16, 20, 33, 64, 65}

\* a register value of len bytes
MkValue(len) == [j \in 1..len |-> 255 - j]

-----------------------------------------------------------------------------
(* State machine *)

\* the AMD64Xstate object
Regset ==
    [fpregs |-> fpregs, AvxState |-> AvxState, YmmSpace |-> YmmSpace,
     Avx512State |-> Avx512State, ZmmSpace |-> ZmmSpace,
     zmmHi256offset |-> zmmHi256offset]

NoCall == [op |-> "none", err |-> "nil", n |-> 0, value |-> <<>>,
           readLegacy |-> FALSE, hint |-> 0]

NoRoundTrip == [phase |-> 0, n |-> 0, first |-> <<>>]

\* a zero AMD64Xstate whose Xsave the caller has set to the raw area
Init ==
    /\ Xsave \in Buffers
    /\ fpregs = ZeroFpRegs
    /\ AvxState = FALSE
    /\ YmmSpace = Zeros(YmmSpaceLen)
    /\ Avx512State = FALSE
    /\ ZmmSpace = Zeros(ZmmSpaceLen)
    /\ zmmHi256offset = 0
    /\ regs = <<>>
    /\ last = NoCall
    /\ rt = NoRoundTrip
    /\ nops = 0

\* AMD64XstateRead(xstate.Xsave, readLegacy, &xstate, hint)
Read(readLegacy, hint) ==
    /\ LET r == AMD64XstateRead(Xsave, readLegacy, Regset, hint)
       IN  /\ fpregs' = r.regset.fpregs
           /\ AvxState' = r.regset.AvxState
           /\ YmmSpace' = r.regset.YmmSpace
           /\ Avx512State' = r.regset.Avx512State
           /\ ZmmSpace' = r.regset.ZmmSpace
           /\ zmmHi256offset' = r.regset.zmmHi256offset
           /\ last' = [op |-> "AMD64XstateRead", err |-> r.err, n |-> 0,
                       value |-> <<>>, readLegacy |-> readLegacy, hint |-> hint]
    /\ rt' = IF ~readLegacy THEN NoRoundTrip
             ELSE IF rt.phase = 2 THEN [rt EXCEPT !.phase = 3]
             ELSE [phase |-> 1, n |-> 0, first |-> <<>>]
    /\ nops' = nops + 1
    /\ UNCHANGED <<Xsave, regs>>

\* xstate.SetXmmRegister(n, value)
Set(n, value) ==
    /\ LET r == SetXmmRegister(Xsave, zmmHi256offset, n, value)
       IN  /\ Xsave' = r.Xsave
           /\ last' = [op |-> "SetXmmRegister", err |-> r.err, n |-> n,
                       value |-> value, readLegacy |-> FALSE, hint |-> 0]
    /\ rt' = IF rt.phase \in {1, 3} /\ n < 16
                /\ value = RowValue(Decode(Regset), "XMM" \o ToString(n))
             THEN [phase |-> 2, n |-> n, first |-> value]
             ELSE NoRoundTrip
    /\ nops' = nops + 1
    /\ UNCHANGED <<fpregs, AvxState, YmmSpace, Avx512State, ZmmSpace,
                   zmmHi256offset, regs>>

\* xstate.Decode()
Project ==
    /\ regs' = Decode(Regset)
    /\ last' = [NoCall EXCEPT !.op = "Decode"]
    /\ nops' = nops + 1
    /\ UNCHANGED <<Xsave, fpregs, AvxState, YmmSpace, Avx512State, ZmmSpace,
                   zmmHi256offset, rt>>

\* the caller sets xstate.Xsave to another raw area
Bind(b) ==
    /\ Xsave' = b
    /\ last' = [NoCall EXCEPT !.op = "Bind"]
    /\ rt' = NoRoundTrip
    /\ nops' = nops + 1
    /\ UNCHANGED <<fpregs, AvxState, YmmSpace, Avx512State, ZmmSpace,
                   zmmHi256offset, regs>>

\* the calls a caller may make, with their arguments
ReadAny == \E readLegacy \in BOOLEAN, hint \in Hints : Read(readLegacy, hint)

SetValue == \E n \in Indexes, len \in ValueLens : Set(n, MkValue(len))

\* the caller writes back the XMM row that Decode shows
SetProjected ==
    \E n \in Indexes \ {16} : Set(n, RowValue(Decode(Regset), "XMM" \o ToString(n)))

BindAny == \E b \in Buffers : Bind(b)

Next ==
    \/ nops < MaxOps /\ ReadAny
    \/ nops < MaxOps /\ SetValue
    \/ nops < MaxOps /\ SetProjected
    \/ nops < MaxOps /\ Project
    \/ nops < MaxOps /\ BindAny

Spec == Init /\ [][Next]_vars

\* decodes without a hint and writes of 16 bytes: the calls of a decode /
\* write-back / decode round trip, and what may come between them
NextRoundTrip ==
    \/ nops < MaxRoundTripOps /\ \E readLegacy \in BOOLEAN : Read(readLegacy, 0)
    \/ nops < MaxRoundTripOps /\ SetProjected
    \/ nops < MaxRoundTripOps /\ \E n \in Indexes \ {16} : Set(n, MkValue(16))

SpecRoundTrip == Init /\ [][NextRoundTrip]_vars

-----------------------------------------------------------------------------
(* Vocabulary of the properties *)

\* the two kinds of error
StructuralReadError == {"EOF", "unexpected EOF"}

RegisterWriteOutOfRange ==
    {"not supported", "too large", "not in XSAVE area",
     "bytes 16.. not in XSAVE area", "bytes 32.. not in XSAVE area"}

\* bit p of the little-endian 64 bit word at byte offset o of b is in b and set
BitAt(b, o, p) ==
    /\ Len(b) >= o + (p \div 8) + 1
    /\ (b[o + (p \div 8) + 1] \div (2 ^ (p % 8))) % 2 = 1

HeaderAvxBit(b) == BitAt(b, 512, 2)
HeaderZmmBit(b) == BitAt(b, 512, 6)
CompactBit(b) == BitAt(b, 520, 63)
PkruBit(b) == BitAt(b, 464, 9)

\* a decode of b comes to the AVX-512 step
ReachesAvx512Step(b) ==
    /\ Len(b) >= 576 + 256
    /\ ~CompactBit(b)
    /\ HeaderAvxBit(b)
    /\ HeaderZmmBit(b)

\* the legacy state f holds the legacy record of b
LegacyPopulated(f, b) ==
    /\ f.Cwd = SubSeq(b, 1, 2)
    /\ f.Rip = SubSeq(b, 9, 16)
    /\ f.Mxcsr = SubSeq(b, 25, 28)
    /\ f.StSpace[1] = SubSeq(b, 33, 36)
    /\ f.XmmSpace = SubSeq(b, 161, 416)

VectorRowNames(prefix) == { prefix \o ToString(n) : n \in 0..15 }

YmmZmmRowNames == VectorRowNames("YMM") \cup VectorRowNames("ZMM")

\* new is old with value split over the three regions of register n, each
\* slice whole, and nothing else changed
SplitLaw(old, new, n, value, off) ==
    LET L == Len(value)
        p1 == 160 + 16 * n
        p2 == 576 + 16 * n
        p3 == off + 32 * n
        in1(i) == i >= p1 /\ i < p1 + Min(L, 16)
        in2(i) == L > 16 /\ i >= p2 /\ i < p2 + Min(L, 32) - 16
        in3(i) == L > 32 /\ i >= p3 /\ i < p3 + L - 32
    IN  /\ Len(new) = Len(old)
        /\ p1 + Min(L, 16) <= Len(old)
        /\ L > 16 => p2 + Min(L, 32) - 16 <= Len(old)
        /\ L > 32 => p3 >= 0 /\ p3 + L - 32 <= Len(old)
        /\ \A i \in 0..(Len(old) - 1) :
              /\ in1(i) => new[i + 1] = value[i - p1 + 1]
              /\ in2(i) => new[i + 1] = value[16 + i - p2 + 1]
              /\ in3(i) => new[i + 1] = value[32 + i - p3 + 1]
              /\ (~in1(i) /\ ~in2(i) /\ ~in3(i)) => new[i + 1] = old[i + 1]

\* new is old with the first two slices of a 64 byte value written for
\* register n and nothing else changed
TwoSlicesCommitted(old, new, n, value) ==
    /\ Len(new) = Len(old)
    /\ \A i \in 0..(Len(old) - 1) :
          new[i + 1] = IF i >= 160 + 16 * n /\ i < 160 + 16 * n + 16
                       THEN value[i - (160 + 16 * n) + 1]
                       ELSE IF i >= 576 + 16 * n /\ i < 576 + 16 * n + 16
                       THEN value[16 + i - (576 + 16 * n) + 1]
                       ELSE old[i + 1]

\* the names the projector gives for registers n.. in order
RECURSIVE ExpectedVectorNames(_, _, _)
ExpectedVectorNames(n, avx, avx512) ==
    IF n > 15 THEN <<>>
    ELSE <<"XMM" \o ToString(n)>>
         \o (IF avx THEN <<"YMM" \o ToString(n)>> ELSE <<>>)
         \o (IF avx512 THEN <<"ZMM" \o ToString(n)>> ELSE <<>>)
         \o ExpectedVectorNames(n + 1, avx, avx512)

ExpectedNames(avx, avx512) ==
    <<"CW", "SW", "TW", "FOP", "FIP", "FDP",
      "ST(0)", "ST(1)", "ST(2)", "ST(3)", "ST(4)", "ST(5)", "ST(6)", "ST(7)",
      "MXCSR", "MXCSR_MASK">> \o ExpectedVectorNames(0, avx, avx512)

\* the widths the rows of a name must have
ExpectedWidths(name) ==
    IF name \in VectorRowNames("XMM") \cup VectorRowNames("YMM") THEN {16}
    ELSE IF name \in VectorRowNames("ZMM") THEN {32}
    ELSE IF name \in { "ST(" \o ToString(k) \o ")" : k \in 0..7 } THEN {10}
    ELSE 0..64

-----------------------------------------------------------------------------
(* Properties *)

\* C1: a decode of a buffer shorter than 576 bytes leaves AVX and AVX-512
\* absent; with the legacy state requested it populates the legacy state and
\* returns no error if the buffer holds the legacy record, and returns a
\* StructuralReadError if it does not; with the legacy state not requested it
\* leaves the legacy state alone and returns no error.
C1_ShortBufferLegacy ==
    [][ (last'.op = "AMD64XstateRead" /\ Len(Xsave) < 512 + 64) =>
           /\ ~AvxState => ~AvxState'
           /\ ~Avx512State => ~Avx512State'
           /\ IF last'.readLegacy
              THEN IF Len(Xsave) >= 512
                   THEN last'.err = "nil" /\ LegacyPopulated(fpregs', Xsave)
                   ELSE last'.err \in StructuralReadError
              ELSE last'.err = "nil" /\ fpregs' = fpregs ]_vars

\* C2: a decode with a non-negative hint ends with a normal result or with
\* the legacy region's StructuralReadError; it never aborts on a read out of
\* range, also when the AVX or ZMM_Hi256 bit is set and the buffer ends early.
C2_DecodeNeverAborts ==
    (last.op = "AMD64XstateRead" /\ last.hint >= 0) =>
        last.err \in {"nil"} \cup StructuralReadError

\* C3: a write to register n in 0..15 of 1 to 64 bytes into a buffer whose
\* vendor offset the decode before it cached, if it returns no error, leaves
\* the three slices of the value whole at 160 + 16n, 576 + 16n and
\* vendor offset + 32n and every other byte as it was.
C3_EncoderSplitLaw ==
    [][ ( /\ last.op = "AMD64XstateRead"
          /\ ReachesAvx512Step(Xsave)
          /\ last'.op = "SetXmmRegister"
          /\ last'.n \in 0..15
          /\ Len(last'.value) \in 1..64
          /\ last'.err = "nil" ) =>
           SplitLaw(Xsave, Xsave', last'.n, last'.value, zmmHi256offset) ]_vars

\* C4: a write of 64 bytes to register n in 0..15 into a buffer that holds
\* slices 1 and 2 but not the whole of slice 3 returns a
\* RegisterWriteOutOfRange error with slices 1 and 2 written and no byte of
\* slice 3 written.
C4_PartialCommit ==
    [][ ( /\ last'.op = "SetXmmRegister"
          /\ last'.n \in 0..15
          /\ Len(last'.value) = 64
          /\ Len(Xsave) >= 576 + 16 * last'.n + 16
          /\ Len(Xsave) < zmmHi256offset + 32 * last'.n + 32 ) =>
           /\ last'.err \in RegisterWriteOutOfRange
           /\ TwoSlicesCommitted(Xsave, Xsave', last'.n, last'.value) ]_vars

\* C5: a decode that comes to the AVX-512 step caches the hint if it is not
\* zero, else 896 if the PKRU bit of the bitmap at 464 is set and the buffer
\* is 2440 bytes long, else 1152; the high-256 block is copied from there.
C5_OffsetResolution ==
    (last.op = "AMD64XstateRead" /\ ReachesAvx512Step(Xsave)) =>
        /\ zmmHi256offset =
              (IF last.hint # 0 THEN last.hint
               ELSE IF PkruBit(Xsave) /\ Len(Xsave) = 2440 THEN 896
               ELSE 1152)
        /\ last.err = "nil" =>
              /\ Avx512State
              /\ ZmmSpace = SubSeq(Xsave, zmmHi256offset + 1, zmmHi256offset + 512)

C5_Witness ==
    /\ last.op = "AMD64XstateRead"
    /\ last.hint = 0
    /\ last.err = "nil"
    /\ ReachesAvx512Step(Xsave)
    /\ PkruBit(Xsave)
    /\ Len(Xsave) = 2440
    /\ zmmHi256offset = 896

\* C6: a decode, into a state with both presence flags clear, of a buffer
\* whose compaction flag has its top bit set or whose header AVX bit is unset
\* returns no error and leaves AVX and AVX-512 absent, and the projected list
\* of that state has no YMM and no ZMM row.
C6_NoAvxWithoutHeaderBit ==
    [][ ( /\ last'.op = "AMD64XstateRead"
          /\ ~AvxState /\ ~Avx512State
          /\ (CompactBit(Xsave) \/ ~HeaderAvxBit(Xsave)) ) =>
           /\ last'.err = "nil"
           /\ ~AvxState' /\ ~Avx512State'
           /\ LET rows == Decode(Regset')
              IN  { rows[i].name : i \in 1..Len(rows) }
                      \cap YmmZmmRowNames = {} ]_vars

C6_Witness ==
    /\ last.op = "AMD64XstateRead"
    /\ Len(Xsave) > 576
    /\ CompactBit(Xsave)
    /\ HeaderAvxBit(Xsave)
    /\ last.err = "nil"
    /\ ~AvxState /\ ~Avx512State

\* C7: after a decode with the legacy state requested, a write-back of the
\* projected XMMn with SetXmmRegister(n) and a second such decode of the same
\* buffer, the projected XMMn is what it was after the first decode.
C7_RoundTrip ==
    rt.phase = 3 =>
        RowValue(Decode(Regset), "XMM" \o ToString(rt.n)) = rt.first

C7_Witness ==
    /\ rt.phase = 3
    /\ rt.n = 3
    /\ last.err = "nil"
    /\ Len(Xsave) > 576
    /\ rt.first = SubSeq(Xsave, 160 + 16 * 3 + 1, 160 + 16 * 3 + 16)
    /\ rt.first # Zeros(16)

\* C8: SetXmmRegister with an index of 16 or more, or with a value of more
\* than 64 bytes, returns a RegisterWriteOutOfRange error and changes no byte
\* of the raw buffer nor the cached vendor offset.
C8_RejectBeforeWrite ==
    [][ ( /\ last'.op = "SetXmmRegister"
          /\ (last'.n >= 16 \/ Len(last'.value) > 64) ) =>
           /\ last'.err \in RegisterWriteOutOfRange
           /\ Xsave' = Xsave
           /\ zmmHi256offset' = zmmHi256offset ]_vars

C8_Witness ==
    /\ last.op = "SetXmmRegister"
    /\ last.n = 16
    /\ Len(last.value) = 16
    /\ last.err = "not supported"
    /\ Len(Xsave) > 160 + 16 * 16 + 16

\* C9: the projected list is CW, SW, TW, FOP, FIP, FDP, ST(0)..ST(7) of 10
\* bytes, MXCSR, MXCSR_MASK, then for n = 0..15 XMMn of 16 bytes, YMMn of 16
\* bytes exactly when AVX is present and ZMMn of 32 bytes exactly when AVX-512
\* is present; no name comes twice; it has 16 + 16 * (1 + AVX + AVX-512) rows.
C9_ProjectionOrder ==
    last.op = "Decode" =>
        /\ [i \in 1..Len(regs) |-> regs[i].name] = ExpectedNames(AvxState, Avx512State)
        /\ \A i \in 1..Len(regs) : Len(regs[i].value) \in ExpectedWidths(regs[i].name)
        /\ Cardinality({ regs[i].name : i \in 1..Len(regs) }) = Len(regs)
        /\ Len(regs) = 16 + 16 * (1 + (IF AvxState THEN 1 ELSE 0)
                                    + (IF Avx512State THEN 1 ELSE 0))

C9_Witness ==
    /\ last.op = "Decode"
    /\ AvxState /\ Avx512State
    /\ Len(regs) = 64
    /\ regs[19].name = "ZMM0"

\* C10: in every state reached from the zero state by decodes and writes,
\* AVX-512 present implies AVX present and a cached vendor offset that is not
\* zero.
C10_Avx512ImpliesAvx ==
    Avx512State => (AvxState /\ zmmHi256offset # 0)

C10_Witness ==
    /\ Avx512State
    /\ last.op = "SetXmmRegister"
    /\ last.err = "nil"

====
